---- MODULE Spec2Model ----
(***************************************************************************)
(* A model of src/App.tsx: the flashcard game loop (round selection,      *)
(* answer evaluation, mastery removal), the daily goal / streak tracker   *)
(* and their persistence in localStorage.                                 *)
(*                                                                         *)
(* React state is modelled as committed state: every handler, timer       *)
(* callback and effect is one atomic action that ends with the re-render  *)
(* and the effects the re-render runs.  A callback that was created in an *)
(* earlier render carries the values it closed over in its timer record.  *)
(***************************************************************************)
EXTENDS Integers, Sequences, FiniteSets, Bags, TLC

\* ------------------------------------------------------------------ bounds
MaxAnswers == 2      \* answers accepted in one behaviour of Spec
MaxTimedAnswers == 3 \* answers accepted in one behaviour of SpecTimed
MaxPraise == 3       \* longest praise audio, in units of 100 ms
MaxClock == 4        \* last instant of the calendar clock, in DayParts
MaxAudio == 1        \* target-audio playbacks in flight at once
DrawGrid == 4        \* Math.random() takes the values u / DrawGrid
DayParts == 2        \* instants per calendar day (0 = midnight)

\* ------------------------------------------------- program constants
MASTERY_THRESHOLD == 20
PRAISE_DELAY == 3        \* setTimeout(..., 300)
NEXT_ROUND_DELAY == 5    \* setTimeout(..., 500) after the praise audio
MASTERY_DELAY == 10      \* setTimeout(..., 1000)
FEEDBACK_RESET_DELAY == 8 \* setTimeout(..., 800)
TARGET_AUDIO_DELAY == 5  \* setTimeout(..., 500) in setupRound
DEFAULT_GOAL == 10       \* useState<number>(10)

\* ------------------------------------------------------------ JS values
NULL == "<null>"         \* null / a key that is not in localStorage
NaN == -1                \* the number NaN (counters are never negative)

Chars == {"a", "b", "c"}

\* A line of text "char:word"; word 0 stands for a line without a colon.
Line(c, w) == [char |-> c, word |-> w]

NoItem == [id |-> <<"", -1>>, char |-> "", word |-> 0]

ZeroStat == [correct |-> 0, incorrect |-> 0, consecutiveCorrect |-> 0]

\* Number.prototype.toString and parseInt(s, 10) on the strings stored.
NumToString(n) == IF n = NaN THEN "NaN" ELSE ToString(n)

MaxNum == 40

parseInt(s) ==
    IF \E n \in 0..MaxNum : ToString(n) = s
    THEN CHOOSE n \in 0..MaxNum : ToString(n) = s
    ELSE NaN

\* Plus that adds y twice
PlusTwice(x, y) == IF x = NaN \/ y = NaN THEN NaN ELSE x + y + y

\* JS arithmetic and comparison on numbers that may be NaN.
Plus(x, y) == IF x = NaN \/ y = NaN THEN NaN ELSE x + y

Geq(x, y) == x # NaN /\ y # NaN /\ x >= y

\* Date.prototype.toDateString of an instant, and new Date(dateString).
DayOf(t) == t \div DayParts

toDateString(t) == ToString(DayOf(t))

DateParse(s) == DayParts * parseInt(s)

\* ---------------------------------------------------------------- text
RECURSIVE SeqSum(_)
SeqSum(s) == IF s = <<>> THEN 0 ELSE Head(s) + SeqSum(Tail(s))

RECURSIVE SeqProd(_)
SeqProd(s) == IF s = <<>> THEN 1 ELSE Head(s) * SeqProd(Tail(s))

\* parseInputData: one item per line that has a colon and a non-empty char;
\* the id holds the char and the index of the line in the text.
parseInputData(text) ==
    LET item(i) == [id |-> <<text[i].char, i - 1>>, char |-> text[i].char,
                    word |-> text[i].word]
        all == [i \in 1..Len(text) |->
                   IF text[i].word # 0 THEN item(i) ELSE NoItem]
    IN  SelectSeq(all, LAMBDA it : it # NoItem /\ it.char # "")

\* ----------------------------------------------------------- setupRound
StatOf(stats, c) == IF c \in DOMAIN stats THEN stats[c] ELSE ZeroStat

\* weight = 10 * (1 + s.incorrect * 3) / (1 + s.correct * 0.5), kept as the
\* exact fraction WNum / WDen.
WNum(s) == 2 * 10 * (1 + s.incorrect * 3)

WDen(s) == 2 + s.correct

\* The weights of the items of list over their common denominator.
ScaledWeights(list, stats) ==
    LET den == [k \in 1..Len(list) |-> WDen(StatOf(stats, list[k].char))]
        all == SeqProd(den)
    IN  [k \in 1..Len(list) |->
            WNum(StatOf(stats, list[k].char)) * (all \div den[k])]

\* PickTarget that leaves the target unset
PickTargetNone(list, stats, u) == NoItem

\* The walk over itemsWithWeights for the draw Math.random() = u / DrawGrid:
\* randomVal -= weight; the first entry that leaves randomVal <= 0 is the
\* target; target starts as currentList[0].
PickTarget(list, stats, u) ==
    LET w == ScaledWeights(list, stats)
        totalWeight == SeqSum(w)
        cum(k) == SeqSum(SubSeq(w, 1, k))
        hit == {k \in 1..Len(list) : u * totalWeight - DrawGrid * cum(k) <= 0}
    IN  IF hit = {} THEN list[1]
        ELSE list[CHOOSE k \in hit : \A j \in hit : k <= j]

\* Array.prototype.sort with the comparator 0.5 - Math.random(): some
\* permutation of the array.
Shuffles(s) ==
    IF s = <<>> THEN {<<>>}
    ELSE {[i \in 1..Len(s) |-> s[p[i]]] : p \in Permutations(1..Len(s))}

CharsOf(s) == {s[i].char : i \in 1..Len(s)}

\* TakeDistractors without the test of usedChars
TakeDistractorsAnyChar(shuffled, selected) ==
    SubSeq(shuffled, 1, IF Len(shuffled) < 2 THEN Len(shuffled) ELSE 2)

\* for (const d of shuffledDistractors): push d unless its char is used,
\* stop at two.
RECURSIVE TakeDistractors(_, _)
TakeDistractors(shuffled, selected) ==
    IF shuffled = <<>> \/ Len(selected) >= 2 THEN selected
    ELSE IF Head(shuffled).char \notin CharsOf(selected)
         THEN TakeDistractors(Tail(shuffled), Append(selected, Head(shuffled)))
         ELSE TakeDistractors(Tail(shuffled), selected)

\* while (selectedDistractors.length < 2 && currentList.length >= 3): the
\* draws that push are those of an item whose char is neither the target's
\* nor used; with no such item the loop never exits.  The result is the set
\* of the arrays the loop can end with, and <<NoItem>> stands for a loop that
\* does not end.
RECURSIVE FillLoop(_, _, _)
FillLoop(list, target, selected) ==
    IF ~(Len(selected) < 2 /\ Len(list) >= 3) THEN {selected}
    ELSE LET ok == {k \in 1..Len(list) :
                       /\ list[k].char # target.char
                       /\ list[k].char \notin CharsOf(selected)}
         IN  IF ok = {} THEN {<<NoItem>>}
             ELSE UNION {FillLoop(list, target, Append(selected, list[k])) :
                            k \in ok}

RECURSIVE SeqToBag(_)
SeqToBag(s) ==
    IF s = <<>> THEN EmptyBag ELSE SetToBag({Head(s)}) (+) SeqToBag(Tail(s))

\* ShuffledOptions that leaves the target out
ShuffledOptionsNoTarget(target, selectedDistractors) ==
    SeqToBag(selectedDistractors)

\* [target, ...selectedDistractors].sort(() => 0.5 - Math.random()): the
\* options in a random order.  No handler reads the position of an option
\* (the buttons pass the item itself), so the options are kept as the bag of
\* the items shown, whatever their order.
ShuffledOptions(target, selectedDistractors) ==
    SeqToBag(<<target>> \o selectedDistractors)

\* setupRound on currentList with the wordStats it closed over: the set of
\* its results.  kind "empty": setTargetWord(null) and return; kind "hang":
\* the fill loop does not end; kind "round": target and options are set.
setupRound(currentList, stats) ==
    IF Len(currentList) = 0
    THEN {[kind |-> "empty", target |-> NoItem, options |-> EmptyBag]}
    ELSE UNION {
        LET target == PickTarget(currentList, stats, u)
            potentialDistractors ==
                SelectSeq(currentList, LAMBDA w : w.char # target.char)
        IN  UNION {
              UNION {
                IF sel = <<NoItem>>
                THEN {[kind |-> "hang", target |-> NoItem,
                       options |-> EmptyBag]}
                ELSE {[kind |-> "round", target |-> target,
                       options |-> ShuffledOptions(target, sel)]}
                : sel \in FillLoop(currentList, target,
                                   TakeDistractors(sh, <<>>))}
              : sh \in Shuffles(potentialDistractors)}
        : u \in 0..(DrawGrid - 1)}

\* ------------------------------------------------------------ the state
VARIABLES
    phase,          \* "init": constructed, effects not yet run; "open":
                    \* mounted; "hung": the event loop is stuck in setupRound
    clock,          \* the calendar clock, in instants (DayParts per day)
    ls,             \* localStorage, one field per STORAGE_KEY_*
    gameState, inputText, learnedText, wordList, wordStats, score,
    currentOptions, targetWord, isPlayingAudio, feedback, errorMessage,
    dailyGoal, dailyProgress, streak, goalMetToday,
    setupRoundEnv,  \* what the memoized setupRound closed over
    timers,         \* pending setTimeout callbacks and awaited praise audio
    audio,          \* playText(target) promises in flight
    answers,        \* answers accepted so far
    roundCorrect,   \* a Correct outcome was recorded for the current round
    signaled,       \* chars whose mastery has been signaled
    streakRaised,   \* streak was incremented since the last rollover
    imported,       \* the backup imports so far and the last file imported
    pick            \* one weighted selection: its inputs and its result

react == <<gameState, inputText, learnedText, wordList, wordStats, score,
           currentOptions, targetWord, isPlayingAudio, feedback, errorMessage,
           dailyGoal, dailyProgress, streak, goalMetToday, setupRoundEnv>>

vars == <<phase, clock, ls, react, timers, audio, answers, roundCorrect,
          signaled, streakRaised, imported, pick>>

\* A stored text and a stored JSON document, present or not.
NoText == [has |-> FALSE, text |-> <<>>]

Text(t) == [has |-> TRUE, text |-> t]

NoJson == [kind |-> "absent", obj |-> <<>>]

JSONstringify(o) == [kind |-> "json", obj |-> o]

EmptyStats == <<>>

\* localStorage.getItem(key) || dflt for a string key.
OrDefault(v, dflt) == IF v = NULL \/ v = "" THEN dflt ELSE v

DEFAULT_DATA == <<Line("a", 1), Line("b", 1), Line("c", 1)>>

\* The contents localStorage can have when a session starts.
FreshStore ==
    [goal |-> NULL, progress |-> NULL, streak |-> NULL, lastDate |-> NULL,
     goalMet |-> NULL, stats |-> NoJson, input |-> NoText,
     learned |-> NoText, totalScore |-> NULL]

\* Nineteen correct answers in a row on "a", nine of them today.
NearMasteryStore ==
    [goal |-> "10", progress |-> "9", streak |-> "1",
     lastDate |-> toDateString(0), goalMet |-> "false",
     stats |-> JSONstringify([c \in {"a"} |->
                 [correct |-> 19, incorrect |-> 0, consecutiveCorrect |-> 19]]),
     input |-> Text(DEFAULT_DATA), learned |-> NoText, totalScore |-> "19"]

\* A pool with two lines for "a"; the goal of one answer a day was met today.
GoalMetStore ==
    [goal |-> "1", progress |-> "1", streak |-> "1",
     lastDate |-> toDateString(0), goalMet |-> "true",
     stats |-> JSONstringify([c \in {"b"} |->
                 [correct |-> 1, incorrect |-> 0, consecutiveCorrect |-> 1]]),
     input |-> Text(<<Line("a", 1), Line("a", 2), Line("b", 1), Line("c", 1)>>),
     learned |-> NoText, totalScore |-> "1"]

Stores == {FreshStore, NearMasteryStore, GoalMetStore}

NoEnv == [stats |-> EmptyStats, playing |-> FALSE]

\* A field of the data object of a backup file: absent, null or a value
\* (the string that toString gives for it, the text, or the ledger).
Undefined == [kind |-> "undefined", str |-> "", text |-> <<>>, obj |-> <<>>]

\* No file has been imported.
NoFile ==
    [data |-> FALSE, input |-> Undefined, learned |-> Undefined,
     stats |-> Undefined, totalScore |-> Undefined, streak |-> Undefined,
     dailyGoal |-> Undefined, dailyProgress |-> Undefined,
     lastDate |-> Undefined, goalMet |-> Undefined]

NoImport == [n |-> 0, ok |-> FALSE, file |-> NoFile]

NoPick == [list |-> <<>>, stats |-> EmptyStats, u |-> 0, target |-> NoItem,
           done |-> FALSE]

\* useState initial values, before the mount effect has run
useStateInit ==
    /\ phase = "init"
    /\ clock = 0
    /\ gameState = "PLAYING"
    /\ inputText = DEFAULT_DATA
    /\ learnedText = <<>>
    /\ wordList = <<>>
    /\ wordStats = EmptyStats
    /\ score = 0
    /\ currentOptions = EmptyBag
    /\ targetWord = NoItem
    /\ isPlayingAudio = FALSE
    /\ feedback = "none"
    /\ errorMessage = NULL
    /\ dailyGoal = DEFAULT_GOAL
    /\ dailyProgress = 0
    /\ streak = 0
    /\ goalMetToday = FALSE
    /\ setupRoundEnv = NoEnv
    /\ timers = <<>>
    /\ audio = 0
    /\ answers = 0
    /\ roundCorrect = FALSE
    /\ signaled = {}
    /\ streakRaised = (ls.goalMet = "true")
    /\ imported = NoImport

\* The page is constructed over one of the stores.
Init == ls \in Stores /\ useStateInit /\ pick = NoPick

\* ---------------------------------------------------------------- timers
Timer(kind, left, seq, word, env, input, learned) ==
    [kind |-> kind, left |-> left, seq |-> seq, word |-> word,
     stats |-> env.stats, playing |-> env.playing,
     inputText |-> input, learnedText |-> learned]

RemoveAt(s, i) == SubSeq(s, 1, i - 1) \o SubSeq(s, i + 1, Len(s))

\* wordListRef.current: the effect that copies wordList runs in the render
\* that commits wordList.
wordListRef == wordList

isMounted == phase = "open"

\* ----------------------------------------------------------- persistence
Truthy(v) == v # NULL /\ v # ""

Abs(x) == IF x < 0 THEN -x ELSE x

\* Math.ceil(diffTime / (1000 * 60 * 60 * 24)) for the time from the start of
\* the day lastDate names to now; NaN when lastDate is not a date.
DiffDays(now, lastDate) ==
    IF parseInt(lastDate) = NaN THEN NaN
    ELSE (Abs(now - DateParse(lastDate)) + DayParts - 1) \div DayParts

\* if (diffDays > 1 && !savedGoalMet)
StreakBroken(diffDays, savedGoalMet) ==
    diffDays # NaN /\ diffDays > 1 /\ ~savedGoalMet

\* SameDay that never sees a new day
SameDayAlways(lastDate, today) == TRUE

\* if (lastDate === today)
SameDay(lastDate, today) == lastDate = today

\* loadProgress on the store st at the instant now, with goal0 the dailyGoal
\* in state: the values it sets and the store it leaves.
loadProgress(st, now, goal0) ==
    LET today == toDateString(now)
        lastDate == st.lastDate
        savedStreak == parseInt(OrDefault(st.streak, "0"))
        savedProgress == parseInt(OrDefault(st.progress, "0"))
        savedGoalMet == st.goalMet = "true"
        broken == StreakBroken(DiffDays(now, lastDate), savedGoalMet)
        rolled == [st EXCEPT !.progress = "0", !.goalMet = "false",
                             !.lastDate = today]
    IN  [dailyGoal |-> IF Truthy(st.goal) THEN parseInt(st.goal) ELSE goal0,
         score |-> parseInt(OrDefault(st.totalScore, "0")),
         dailyProgress |-> IF SameDay(lastDate, today) THEN savedProgress
                           ELSE 0,
         goalMetToday |-> IF SameDay(lastDate, today) THEN savedGoalMet
                          ELSE FALSE,
         streak |-> IF SameDay(lastDate, today) THEN savedStreak
                    ELSE IF Truthy(lastDate)
                         THEN (IF broken THEN 0 ELSE savedStreak)
                         ELSE 0,
         ls |-> IF SameDay(lastDate, today) THEN st
                ELSE IF Truthy(lastDate) /\ broken
                     THEN [rolled EXCEPT !.streak = "0"]
                     ELSE rolled]

\* loadStats: if (saved) setWordStats(JSON.parse(saved)); a parse error is
\* caught and leaves the state as it is.
loadStats(st, stats0) ==
    IF st.stats.kind = "json" THEN st.stats.obj ELSE stats0

\* loadContent
loadContent(st, learned0) ==
    LET currentInput == IF st.input.has THEN st.input.text ELSE DEFAULT_DATA
    IN  [inputText |-> currentInput,
         wordList |-> parseInputData(currentInput),
         learnedText |-> IF st.learned.has /\ st.learned.text # <<>>
                         THEN st.learned.text ELSE learned0]

\* ------------------------------------------------- rounds and the effect
\* The state updates of one result r of setupRound, called with the target,
\* options, feedback, timers and round flag tw, opts, fb, tms, rc in state and
\* with env the closure of the setupRound that ran.  A call that does not return leaves
\* nothing committed.
ApplyRound(r, tw, opts, fb, tms, env, rc) ==
    /\ phase' = IF r.kind = "hang" THEN "hung" ELSE "open"
    /\ targetWord' = IF r.kind = "round" THEN r.target
                     ELSE IF r.kind = "empty" THEN NoItem ELSE tw
    /\ currentOptions' = IF r.kind = "round" THEN r.options ELSE opts
    /\ feedback' = IF r.kind = "round" THEN "none" ELSE fb
    /\ timers' = IF r.kind = "round"
                 THEN Append(tms, Timer("targetAudio", TARGET_AUDIO_DELAY, 0,
                                        r.target, env, <<>>, <<>>))
                 ELSE tms
    /\ roundCorrect' = IF r.kind = "round" THEN FALSE ELSE rc

\* The initial setup trigger, run by the render that commits gs, wl and tw:
\* if (gameState === PLAYING && wordList.length > 0 && !targetWord) setupRound()
SetupTrigger(gs, wl, tw, opts, fb, tms, env, rc) ==
    IF gs = "PLAYING" /\ Len(wl) > 0 /\ tw = NoItem
    THEN \E r \in setupRound(wl, env.stats) :
            ApplyRound(r, tw, opts, fb, tms, env, rc)
    ELSE /\ phase' = "open"
         /\ targetWord' = tw
         /\ currentOptions' = opts
         /\ feedback' = fb
         /\ timers' = tms
         /\ roundCorrect' = rc

\* ------------------------------------------------------- session start
\* The page is loaded: state starts from the useState values, the mount
\* effect runs loadProgress, loadStats and loadContent, and the render that
\* follows runs the initial setup trigger.
SessionStart ==
    LET p == loadProgress(ls, clock, DEFAULT_GOAL)
        c == loadContent(ls, <<>>)
        stats == loadStats(ls, EmptyStats)
        env == [stats |-> stats, playing |-> FALSE]
    IN  /\ phase = "init"
        /\ ls' = p.ls
        /\ dailyGoal' = p.dailyGoal
        /\ score' = p.score
        /\ dailyProgress' = p.dailyProgress
        /\ streak' = p.streak
        /\ goalMetToday' = p.goalMetToday
        /\ wordStats' = stats
        /\ inputText' = c.inputText
        /\ wordList' = c.wordList
        /\ learnedText' = c.learnedText
        /\ gameState' = "PLAYING"
        /\ isPlayingAudio' = FALSE
        /\ errorMessage' = NULL
        /\ setupRoundEnv' = env
        /\ audio' = 0
        /\ streakRaised' = IF SameDay(ls.lastDate, toDateString(clock))
                           THEN streakRaised ELSE FALSE
        /\ SetupTrigger("PLAYING", c.wordList, NoItem, EmptyBag, "none", <<>>,
                        env, FALSE)
        /\ UNCHANGED <<imported, pick, clock, answers, signaled>>

\* The page is closed (or reloaded): its state and its timers are gone, the
\* store stays.
ClosePage ==
    /\ phase # "init"
    /\ phase' = "init"
    /\ gameState' = "PLAYING"
    /\ inputText' = DEFAULT_DATA
    /\ learnedText' = <<>>
    /\ wordList' = <<>>
    /\ wordStats' = EmptyStats
    /\ score' = 0
    /\ currentOptions' = EmptyBag
    /\ targetWord' = NoItem
    /\ isPlayingAudio' = FALSE
    /\ feedback' = "none"
    /\ errorMessage' = NULL
    /\ dailyGoal' = DEFAULT_GOAL
    /\ dailyProgress' = 0
    /\ streak' = 0
    /\ goalMetToday' = FALSE
    /\ setupRoundEnv' = NoEnv
    /\ timers' = <<>>
    /\ audio' = 0
    /\ roundCorrect' = FALSE
    /\ UNCHANGED <<imported, pick, clock, ls, answers, signaled, streakRaised>>

\* Time of day and the date move on while the page is closed.
ClockAdvance ==
    /\ phase = "init"
    /\ clock < MaxClock
    /\ clock' = clock + 1
    /\ UNCHANGED <<imported, pick, phase, ls, react, timers, audio, answers, roundCorrect,
                   signaled, streakRaised>>

\* ------------------------------------------------------------- answers
\* setWordStats updater of the correct branch
recordCorrect(prev, char) ==
    LET currentStat == StatOf(prev, char)
        newConsecutive == currentStat.consecutiveCorrect + 1
    IN  [c \in DOMAIN prev \cup {char} |->
            IF c = char
            THEN [currentStat EXCEPT !.correct = currentStat.correct + 1,
                                     !.consecutiveCorrect = newConsecutive]
            ELSE prev[c]]

\* recordIncorrect without the reset of consecutiveCorrect
recordIncorrectNoReset(prev, char) ==
    LET currentStat == StatOf(prev, char)
    IN  [c \in DOMAIN prev \cup {char} |->
            IF c = char
            THEN [currentStat EXCEPT !.incorrect = currentStat.incorrect + 1]
            ELSE prev[c]]

\* recordIncorrect that keeps no record but the char's
recordIncorrectAlone(prev, char) ==
    LET currentStat == StatOf(prev, char)
    IN  [c \in {char} |->
            [currentStat EXCEPT !.incorrect = currentStat.incorrect + 1,
                                !.consecutiveCorrect = 0]]

\* setWordStats updater of the incorrect branch
recordIncorrect(prev, char) ==
    LET currentStat == StatOf(prev, char)
    IN  [c \in DOMAIN prev \cup {char} |->
            IF c = char
            THEN [currentStat EXCEPT !.incorrect = currentStat.incorrect + 1,
                                     !.consecutiveCorrect = 0]
            ELSE prev[c]]

\* The value of isMastered that "if (isMastered)" reads after the call of
\* setWordStats.  The updater sets it; React runs an updater inside the call
\* only when the component has no update queued, and setFeedback, setScore
\* and setDailyProgress have queued theirs before, so the updater runs at the
\* render, after the read (ranInCall FALSE).  A runtime that runs updaters
\* inside the call gives ranInCall TRUE; both outcomes are kept.
isMasteredRead(newConsecutive, ranInCall) ==
    ranInCall /\ newConsecutive >= MASTERY_THRESHOLD

\* GoalReached with > for >=
GoalReachedStrict(newProgress, goal, met) ==
    newProgress # NaN /\ goal # NaN /\ newProgress > goal /\ ~met

\* GoalReached without the test of goalMetToday
GoalReachedAgain(newProgress, goal, met) == Geq(newProgress, goal)

\* if (newProgress >= dailyGoal && !goalMetToday)
GoalReached(newProgress, goal, met) == Geq(newProgress, goal) /\ ~met

\* updateProgress at the instant now, over the values of the render the
\* handler belongs to: the values it sets and the store it leaves.
updateProgress(st, now, progress, goal, strk, met) ==
    LET newProgress == Plus(progress, 1)
        reached == GoalReached(newProgress, goal, met)
        newStreak == Plus(strk, 1)
        st1 == [st EXCEPT !.progress = NumToString(newProgress),
                          !.lastDate = toDateString(now)]
    IN  [dailyProgress |-> newProgress,
         streak |-> IF reached THEN newStreak ELSE strk,
         goalMetToday |-> IF reached THEN TRUE ELSE met,
         ls |-> IF reached
                THEN [st1 EXCEPT !.streak = NumToString(newStreak),
                                 !.goalMet = "true"]
                ELSE st1,
         raised |-> reached]

Range(s) == {s[i] : i \in 1..Len(s)}

\* if (!targetWord || isPlayingAudio || feedback === 'correct') return
ClickRejected == targetWord = NoItem \/ isPlayingAudio \/ feedback = "correct"

CorrectAnswer(ranInCall) ==
    LET char == targetWord.char
        seq == answers + 1
        newScore == Plus(score, 1)
        up == updateProgress(ls, clock, dailyProgress, dailyGoal, streak,
                             goalMetToday)
        newStats == recordCorrect(wordStats, char)
        isMastered ==
            isMasteredRead(newStats[char].consecutiveCorrect, ranInCall)
        env == [stats |-> newStats, playing |-> isPlayingAudio]
        tms == timers
               \o (IF isMastered
                   THEN <<Timer("mastery", MASTERY_DELAY, seq, targetWord,
                                NoEnv, inputText, learnedText)>>
                   ELSE <<>>)
               \o <<Timer("praiseStart", PRAISE_DELAY, seq, NoItem,
                          setupRoundEnv, <<>>, <<>>)>>
    IN  /\ score' = newScore
        /\ dailyProgress' = up.dailyProgress
        /\ streak' = up.streak
        /\ goalMetToday' = up.goalMetToday
        /\ wordStats' = newStats
        /\ ls' = [up.ls EXCEPT !.totalScore = NumToString(newScore),
                               !.stats = JSONstringify(newStats)]
        /\ setupRoundEnv' = env
        /\ signaled' = IF isMastered THEN signaled \cup {char} ELSE signaled
        /\ streakRaised' = (streakRaised \/ up.raised)
        /\ SetupTrigger(gameState, wordList, targetWord, currentOptions,
                        "correct", tms, env, TRUE)
        /\ UNCHANGED <<gameState, inputText, learnedText, wordList,
                       isPlayingAudio, errorMessage, dailyGoal>>

IncorrectAnswer ==
    LET char == targetWord.char
        seq == answers + 1
        newStats == recordIncorrect(wordStats, char)
        env == [stats |-> newStats, playing |-> isPlayingAudio]
        tms == Append(timers, Timer("feedbackReset", FEEDBACK_RESET_DELAY, seq,
                                    targetWord, NoEnv, <<>>, <<>>))
    IN  /\ wordStats' = newStats
        /\ ls' = [ls EXCEPT !.stats = JSONstringify(newStats)]
        /\ setupRoundEnv' = env
        /\ SetupTrigger(gameState, wordList, targetWord, currentOptions,
                        "incorrect", tms, env, roundCorrect)
        /\ UNCHANGED <<gameState, inputText, learnedText, wordList, score,
                       isPlayingAudio, errorMessage, dailyGoal, dailyProgress,
                       streak, goalMetToday, signaled, streakRaised>>

\* A click on one of the option buttons renderGame shows.
handleOptionClick(selected, ranInCall) ==
    /\ phase = "open"
    /\ gameState = "PLAYING"
    /\ Len(wordList) > 0
    /\ selected \in BagToSet(currentOptions)
    /\ IF ClickRejected
       THEN UNCHANGED vars
       ELSE /\ answers' = answers + 1
            /\ UNCHANGED <<imported, pick, clock, audio>>
            /\ IF selected.id = targetWord.id
               THEN CorrectAnswer(ranInCall)
               ELSE IncorrectAnswer

\* -------------------------------------------------------- timer callbacks
\* playTargetAudio(word) as the closure that saw isPlayingAudio = playing:
\* if (!word || isPlayingAudio) return; otherwise playText starts.
AudioStarts(word, playing) == word # NoItem /\ ~playing

\* The move handleMastery makes of the first line of input whose text before
\* the colon is char.
MasteryMove(input, learned, char) ==
    LET found == {i \in 1..Len(input) : input[i].char = char}
        lineIndex == CHOOSE i \in found : \A j \in found : i <= j
    IN  IF found = {}
        THEN [moved |-> FALSE, newInput |-> <<>>, newLearned |-> <<>>]
        ELSE [moved |-> TRUE,
              newInput |-> RemoveAt(input, lineIndex),
              newLearned |-> Append(learned, input[lineIndex])]

\* setTimeout(() => handleMastery(targetWord), 1000): handleMastery of the
\* render of the click, with its inputText and learnedText.
handleMastery(tm, rest) ==
    LET m == MasteryMove(tm.inputText, tm.learnedText, tm.word.char)
        newList == parseInputData(m.newInput)
        env == [stats |-> wordStats, playing |-> isPlayingAudio]
    IN  IF m.moved
        THEN /\ inputText' = m.newInput
             /\ learnedText' = m.newLearned
             /\ ls' = [ls EXCEPT !.input = Text(m.newInput),
                                 !.learned = Text(m.newLearned)]
             /\ wordList' = newList
             /\ setupRoundEnv' = env
             /\ SetupTrigger(gameState, newList, targetWord, currentOptions,
                             feedback, rest, env, roundCorrect)
             /\ UNCHANGED <<isPlayingAudio, errorMessage, audio>>
        ELSE /\ timers' = rest
             /\ UNCHANGED <<phase, ls, inputText, learnedText, wordList,
                            setupRoundEnv, targetWord, currentOptions,
                            feedback, roundCorrect, isPlayingAudio,
                            errorMessage, audio>>

\* setTimeout(() => { if (isMounted.current) { setFeedback('none');
\* playTargetAudio(targetWord); } }, 800)
FeedbackReset(tm, rest) ==
    /\ feedback' = "none"
    /\ timers' = rest
    /\ IF AudioStarts(tm.word, tm.playing)
       THEN /\ audio < MaxAudio
            /\ audio' = audio + 1
            /\ isPlayingAudio' = TRUE
            /\ errorMessage' = NULL
       ELSE UNCHANGED <<audio, isPlayingAudio, errorMessage>>
    /\ UNCHANGED <<phase, ls, inputText, learnedText, wordList,
                   setupRoundEnv, targetWord, currentOptions, roundCorrect>>

\* setTimeout(() => playTargetAudio(target), 500) of setupRound
TargetAudio(tm, rest) ==
    /\ timers' = rest
    /\ IF AudioStarts(tm.word, tm.playing)
       THEN /\ audio < MaxAudio
            /\ audio' = audio + 1
            /\ isPlayingAudio' = TRUE
            /\ errorMessage' = NULL
       ELSE UNCHANGED <<audio, isPlayingAudio, errorMessage>>
    /\ UNCHANGED <<phase, ls, inputText, learnedText, wordList,
                   setupRoundEnv, targetWord, currentOptions, feedback,
                   roundCorrect>>

\* setTimeout(async () => { await playPraiseAudio(); ... }, 300): the praise
\* audio starts and lasts d (0: playback fails at once, which is caught).
PraiseStart(tm, rest) ==
    /\ \E d \in 0..MaxPraise :
          timers' = Append(rest, [tm EXCEPT !.kind = "praise", !.left = d])
    /\ UNCHANGED <<phase, ls, inputText, learnedText, wordList,
                   setupRoundEnv, targetWord, currentOptions, feedback,
                   roundCorrect, isPlayingAudio, errorMessage, audio>>

\* playPraiseAudio has returned: setTimeout(..., 500)
PraiseEnd(tm, rest) ==
    /\ timers' = Append(rest, [tm EXCEPT !.kind = "nextRound",
                                         !.left = NEXT_ROUND_DELAY])
    /\ UNCHANGED <<phase, ls, inputText, learnedText, wordList,
                   setupRoundEnv, targetWord, currentOptions, feedback,
                   roundCorrect, isPlayingAudio, errorMessage, audio>>

\* setTimeout(() => { if (isMounted.current) setupRound(); }, 500): the
\* setupRound of the render of the click, reading wordListRef.current.
NextRound(tm, rest) ==
    /\ \E r \in setupRound(wordListRef, tm.stats) :
          ApplyRound(r, targetWord, currentOptions, feedback, rest,
                     [stats |-> tm.stats, playing |-> tm.playing],
                     roundCorrect)
    /\ UNCHANGED <<ls, inputText, learnedText, wordList, setupRoundEnv,
                   isPlayingAudio, errorMessage, audio>>

\* A timer whose delay has run out fires; timers that are due at the same
\* instant fire in any order.
FireTimer(i) ==
    /\ isMounted
    /\ i \in 1..Len(timers)
    /\ timers[i].left = 0
    /\ LET tm == timers[i]
           rest == RemoveAt(timers, i)
       IN  CASE tm.kind = "mastery" -> handleMastery(tm, rest)
             [] tm.kind = "feedbackReset" -> FeedbackReset(tm, rest)
             [] tm.kind = "targetAudio" -> TargetAudio(tm, rest)
             [] tm.kind = "praiseStart" -> PraiseStart(tm, rest)
             [] tm.kind = "praise" -> PraiseEnd(tm, rest)
             [] tm.kind = "nextRound" -> NextRound(tm, rest)
    /\ UNCHANGED <<imported, pick, clock, gameState, score, wordStats, dailyGoal,
                   dailyProgress, streak, goalMetToday, answers, signaled,
                   streakRaised>>

\* The time to the next timer that is due.
NextDue ==
    CHOOSE d \in {timers[i].left : i \in 1..Len(timers)} :
        \A i \in 1..Len(timers) : d <= timers[i].left

\* dt * 100 ms pass, no timer being due before.
TimePasses(dt) ==
    /\ isMounted
    /\ timers # <<>>
    /\ dt >= 1
    /\ \A i \in 1..Len(timers) : timers[i].left >= dt
    /\ timers' = [i \in 1..Len(timers) |->
                     [timers[i] EXCEPT !.left = timers[i].left - dt]]
    /\ UNCHANGED <<imported, pick, phase, clock, ls, react, audio, answers, roundCorrect,
                   signaled, streakRaised>>

\* AudioDone whose catch block leaves isPlayingAudio set
AudioDoneStillPlaying(ok) ==
    /\ isMounted
    /\ audio > 0
    /\ audio' = audio - 1
    /\ isPlayingAudio' = ~ok
    /\ errorMessage' = IF ok THEN errorMessage ELSE "Audio playback failed"
    /\ UNCHANGED <<imported, pick, phase, clock, ls, gameState, inputText, learnedText,
                   wordList, wordStats, score, currentOptions, targetWord,
                   feedback, dailyGoal, dailyProgress, streak, goalMetToday,
                   setupRoundEnv, timers, answers, roundCorrect, signaled,
                   streakRaised>>

\* playText(target) resolves (ok) or rejects.
AudioDone(ok) ==
    /\ isMounted
    /\ audio > 0
    /\ audio' = audio - 1
    /\ isPlayingAudio' = FALSE
    /\ errorMessage' = IF ok THEN errorMessage ELSE "Audio playback failed"
    /\ UNCHANGED <<imported, pick, phase, clock, ls, gameState, inputText, learnedText,
                   wordList, wordStats, score, currentOptions, targetWord,
                   feedback, dailyGoal, dailyProgress, streak, goalMetToday,
                   setupRoundEnv, timers, answers, roundCorrect, signaled,
                   streakRaised>>

\* ------------------------------------------------------------ the setup
\* onClick={() => setGameState(GameState.SETUP)}
OpenSetup ==
    /\ isMounted
    /\ gameState = "PLAYING"
    /\ gameState' = "SETUP"
    /\ UNCHANGED <<imported, pick, phase, clock, ls, inputText, learnedText, wordList,
                   wordStats, score, currentOptions, targetWord,
                   isPlayingAudio, feedback, errorMessage, dailyGoal,
                   dailyProgress, streak, goalMetToday, setupRoundEnv, timers,
                   audio, answers, roundCorrect, signaled, streakRaised>>

\* The values the daily-goal input passes: Math.max(1, parseInt(value) || 1)
GoalInputs == {1, 11}

saveGoalSetting(val) ==
    /\ isMounted
    /\ gameState = "SETUP"
    /\ val # dailyGoal
    /\ dailyGoal' = val
    /\ ls' = [ls EXCEPT !.goal = NumToString(val)]
    /\ UNCHANGED <<imported, pick, phase, clock, gameState, inputText, learnedText, wordList,
                   wordStats, score, currentOptions, targetWord,
                   isPlayingAudio, feedback, errorMessage, dailyProgress,
                   streak, goalMetToday, setupRoundEnv, timers, audio,
                   answers, roundCorrect, signaled, streakRaised>>

\* startGame: fewer than 3 parsed lines are refused with an alert.
startGame ==
    /\ isMounted
    /\ gameState = "SETUP"
    /\ LET parsed == parseInputData(inputText)
           env == [stats |-> wordStats, playing |-> isPlayingAudio]
       IN  IF Len(parsed) < 3
           THEN UNCHANGED vars
           ELSE /\ wordList' = parsed
                /\ errorMessage' = NULL
                /\ gameState' = "PLAYING"
                /\ setupRoundEnv' = env
                /\ SetupTrigger("PLAYING", parsed, NoItem, currentOptions,
                                feedback, timers, env, roundCorrect)
                /\ UNCHANGED <<imported, pick, clock, ls, inputText, learnedText, wordStats,
                               score, isPlayingAudio, dailyGoal,
                               dailyProgress, streak, goalMetToday, audio,
                               answers, signaled, streakRaised>>

\* ------------------------------------------------------------------ Next
\* Nothing of the page is pending: no timer, no audio (or the page is not
\* running at all).
Quiet == phase # "open" \/ (timers = <<>> /\ audio = 0)

\* The whole program with a user who acts when nothing is pending and an
\* audio that plays: sessions over several days, the setup screen, answers
\* and all that follows them.
Next ==
    \/ SessionStart
    \/ (Quiet /\ ClosePage)
    \/ ClockAdvance
    \/ \E selected \in BagToSet(currentOptions), ranInCall \in BOOLEAN :
          /\ Quiet
          /\ answers < MaxAnswers
          /\ handleOptionClick(selected, ranInCall)
    \/ \E i \in 1..Len(timers) : FireTimer(i)
    \/ (timers # <<>> /\ TimePasses(NextDue))
    \/ AudioDone(TRUE)
    \/ (Quiet /\ OpenSetup)
    \/ \E val \in GoalInputs : Quiet /\ saveGoalSetting(val)
    \/ (Quiet /\ startGame)

Spec == Init /\ [][Next]_vars

\* One session of the game in which the user clicks at any moment, also
\* while timers and audio are pending, and the audio may fail.
InitTimed == Init /\ ls = NearMasteryStore

NextTimed ==
    \/ SessionStart
    \/ \E selected \in BagToSet(currentOptions), ranInCall \in BOOLEAN :
          /\ answers < MaxTimedAnswers
          /\ handleOptionClick(selected, ranInCall)
    \/ \E i \in 1..Len(timers) : FireTimer(i)
    \/ TimePasses(1)
    \/ \E ok \in BOOLEAN : AudioDone(ok)

SpecTimed == InitTimed /\ [][NextTimed]_vars

\* ---------------------------------------------------- content and backup
\* saveContentSettings, called by the two text areas of the setup screen.
saveContentSettings(newInput, newLearned) ==
    /\ isMounted
    /\ gameState = "SETUP"
    /\ <<newInput, newLearned>> # <<inputText, learnedText>>
    /\ inputText' = newInput
    /\ learnedText' = newLearned
    /\ ls' = [ls EXCEPT !.input = Text(newInput), !.learned = Text(newLearned)]
    /\ UNCHANGED <<imported, pick, phase, clock, gameState, wordList,
                   wordStats, score, currentOptions, targetWord,
                   isPlayingAudio, feedback, errorMessage, dailyGoal,
                   dailyProgress, streak, goalMetToday, setupRoundEnv, timers,
                   audio, answers, roundCorrect, signaled, streakRaised>>

\* The edit of the content text area: the user replaces the text by two
\* lines.
ContentEdits == {<<<<Line("b", 1), Line("c", 1)>>, learnedText>>}

\* Fields of the data object of a backup file after JSON.parse.
Null == [kind |-> "null", str |-> "", text |-> <<>>, obj |-> <<>>]

Str(s) == [kind |-> "value", str |-> s, text |-> <<>>, obj |-> <<>>]

Txt(t) == [kind |-> "value", str |-> "", text |-> t, obj |-> <<>>]

Obj(o) == [kind |-> "value", str |-> "", text |-> <<>>, obj |-> o]

\* A number in the file: JSON.stringify writes NaN as null.
Num(n) == IF n = NaN THEN Null ELSE Str(NumToString(n))

\* localStorage.getItem(key) for a key that holds a plain string.
StrOrNull(v) == IF v = NULL THEN Null ELSE Str(v)

\* handleExportData: the data object written to the file from the store st
\* (version and timestamp are never read back).
handleExportData(st) ==
    [data |-> TRUE,
     input |-> Txt(IF st.input.has /\ st.input.text # <<>>
                   THEN st.input.text ELSE DEFAULT_DATA),
     learned |-> Txt(IF st.learned.has THEN st.learned.text ELSE <<>>),
     stats |-> Obj(IF st.stats.kind = "json" THEN st.stats.obj
                   ELSE EmptyStats),
     totalScore |-> Num(parseInt(OrDefault(st.totalScore, "0"))),
     streak |-> Num(parseInt(OrDefault(st.streak, "0"))),
     dailyGoal |-> Num(parseInt(OrDefault(st.goal, "10"))),
     dailyProgress |-> Num(parseInt(OrDefault(st.progress, "0"))),
     lastDate |-> StrOrNull(st.lastDate),
     goalMet |-> StrOrNull(st.goalMet)]

\* The fields in the order handleFileChange restores them, and their keys.
ImportFields ==
    <<"input", "learned", "stats", "totalScore", "streak", "dailyGoal",
      "dailyProgress", "lastDate", "goalMet">>

StoreKey(f) ==
    CASE f = "dailyGoal" -> "goal"
      [] f = "dailyProgress" -> "progress"
      [] OTHER -> f

\* d.<field>.toString() on null throws a TypeError.
ToStringThrows(f, v) ==
    /\ f \in {"totalScore", "streak", "dailyGoal", "dailyProgress"}
    /\ v.kind = "null"

\* localStorage.setItem(key, d.<field>) of one field; setItem turns null into
\* the string "null".  The ledger of the files drawn is never null.
RestoreField(st, f, v) ==
    CASE f \in {"input", "learned"} ->
            [st EXCEPT ![f] = Text(IF v.kind = "null"
                                   THEN <<Line("null", 0)>> ELSE v.text)]
      [] f = "stats" -> [st EXCEPT !.stats = JSONstringify(v.obj)]
      [] f \in {"lastDate", "goalMet"} ->
            [st EXCEPT ![f] = IF v.kind = "null" THEN "null" ELSE v.str]
      [] OTHER -> [st EXCEPT ![StoreKey(f)] = v.str]

\* "Restore to LocalStorage": the fields from the k-th on, one after the
\* other; an exception ends it and leaves what was written before.
RECURSIVE Restore(_, _, _)
Restore(st, d, k) ==
    IF k > Len(ImportFields) THEN [ls |-> st, ok |-> TRUE]
    ELSE LET f == ImportFields[k]
         IN  IF d[f].kind = "undefined" THEN Restore(st, d, k + 1)
             ELSE IF ToStringThrows(f, d[f]) THEN [ls |-> st, ok |-> FALSE]
             ELSE Restore(RestoreField(st, f, d[f]), d, k + 1)

\* reader.onload of handleFileChange for the parsed file d: a file without
\* data (or that is not JSON) throws before anything is written; after the
\* fields are restored loadContent, loadProgress and loadStats run.
handleFileChange(d) ==
    LET r == IF d.data THEN Restore(ls, d, 1) ELSE [ls |-> ls, ok |-> FALSE]
        c == loadContent(r.ls, learnedText)
        p == loadProgress(r.ls, clock, dailyGoal)
        stats == loadStats(r.ls, wordStats)
        env == [stats |-> stats, playing |-> isPlayingAudio]
    IN  /\ isMounted
        /\ gameState = "SETUP"
        /\ imported' = [n |-> imported.n + 1, ok |-> r.ok, file |-> d]
        /\ IF r.ok
           THEN /\ ls' = p.ls
                /\ inputText' = c.inputText
                /\ wordList' = c.wordList
                /\ learnedText' = c.learnedText
                /\ dailyGoal' = p.dailyGoal
                /\ score' = p.score
                /\ dailyProgress' = p.dailyProgress
                /\ streak' = p.streak
                /\ goalMetToday' = p.goalMetToday
                /\ wordStats' = stats
                /\ setupRoundEnv' = env
                /\ streakRaised' = (p.ls.goalMet = "true")
                /\ SetupTrigger(gameState, c.wordList, targetWord,
                                currentOptions, feedback, timers, env,
                                roundCorrect)
                /\ UNCHANGED <<pick, clock, gameState, isPlayingAudio,
                               errorMessage, audio, answers, signaled>>
           ELSE /\ ls' = r.ls
                /\ UNCHANGED <<pick, phase, clock, react, timers, audio,
                               answers, roundCorrect, signaled, streakRaised>>

\* Backup files the user can choose: the file exported from the store as it
\* is, a file without a data object, a file whose totalScore is null, a file
\* of another device with a streak of 5, and a file with a goal that is not
\* a number.
NoDataFile == NoFile

NullScoreFile ==
    [NoFile EXCEPT !.data = TRUE,
                   !.input = Txt(<<Line("b", 1), Line("c", 1)>>),
                   !.totalScore = Null]

StreakFile == [NoFile EXCEPT !.data = TRUE, !.streak = Str("5")]

BadGoalFile == [NoFile EXCEPT !.data = TRUE, !.dailyGoal = Str("abc")]

BackupFiles(st) ==
    {handleExportData(st), NoDataFile, NullScoreFile, StreakFile, BadGoalFile}

\* Stores for the sessions with content edits and backups.
\* One item in the pool, one answer from mastery.
OneLineStore ==
    [NearMasteryStore EXCEPT !.input = Text(<<Line("a", 1)>>)]

\* Two lines for "a", which is one answer from mastery.
TwoLinesStore ==
    [NearMasteryStore EXCEPT
        !.input = Text(<<Line("a", 1), Line("a", 2)>>)]

ContentStores == {OneLineStore, TwoLinesStore}

InitContent == ls \in ContentStores /\ useStateInit /\ pick = NoPick

MaxImports == 1

MaxContentAnswers == 1

\* Sessions with content edits and backup export and import on the setup
\* screen, and the game with a user who acts when nothing is pending.
NextContent ==
    \/ SessionStart
    \/ (Quiet /\ ClosePage)
    \/ ClockAdvance
    \/ \E selected \in BagToSet(currentOptions), ranInCall \in BOOLEAN :
          /\ Quiet
          /\ answers < MaxContentAnswers
          /\ handleOptionClick(selected, ranInCall)
    \/ \E i \in 1..Len(timers) : FireTimer(i)
    \/ (timers # <<>> /\ TimePasses(NextDue))
    \/ AudioDone(TRUE)
    \/ (Quiet /\ OpenSetup)
    \/ \E e \in ContentEdits : Quiet /\ saveContentSettings(e[1], e[2])
    \/ \E d \in BackupFiles(ls) :
          Quiet /\ imported.n < MaxImports /\ handleFileChange(d)
    \/ (Quiet /\ startGame)

SpecContent == InitContent /\ [][NextContent]_vars

\* ------------------------------------------- the restore of a backup
\* A backup made when no line had been mastered: its learned text is "".
NoLearnedFile == [NoFile EXCEPT !.data = TRUE, !.learned = Txt(<<>>)]

\* The files the user restores: the file exported from the store as it is
\* and the backup made before any mastery.
RestoreFiles(st) == {handleExportData(st), NoLearnedFile}

InitRestore == ls \in ContentStores /\ useStateInit /\ pick = NoPick

\* One session with the game, content edits and the restore of a backup on
\* the setup screen, with a user who acts when nothing is pending.
NextRestore ==
    \/ SessionStart
    \/ \E selected \in BagToSet(currentOptions), ranInCall \in BOOLEAN :
          /\ Quiet
          /\ answers < MaxContentAnswers
          /\ handleOptionClick(selected, ranInCall)
    \/ \E i \in 1..Len(timers) : FireTimer(i)
    \/ (timers # <<>> /\ TimePasses(NextDue))
    \/ AudioDone(TRUE)
    \/ (Quiet /\ OpenSetup)
    \/ \E e \in ContentEdits : Quiet /\ saveContentSettings(e[1], e[2])
    \/ \E d \in RestoreFiles(ls) :
          Quiet /\ imported.n < MaxImports /\ handleFileChange(d)
    \/ (Quiet /\ startGame)

SpecRestore == InitRestore /\ [][NextRestore]_vars

\* ------------------------------------------- one session that stays open
\* A pool of three lines with two chars, as the content text area saved it.
RepeatStore ==
    [FreshStore EXCEPT
        !.input = Text(<<Line("a", 1), Line("a", 2), Line("b", 1)>>)]

\* A pool of four lines with three chars; "c" is one answer from mastery and
\* the goal of one answer a day was met today.
RepeatMasteryStore ==
    [goal |-> "1", progress |-> "1", streak |-> "1",
     lastDate |-> toDateString(0), goalMet |-> "true",
     stats |-> JSONstringify([c \in {"c"} |->
                 [correct |-> 19, incorrect |-> 0, consecutiveCorrect |-> 19]]),
     input |-> Text(<<Line("c", 1), Line("a", 1), Line("a", 2), Line("b", 1)>>),
     learned |-> NoText, totalScore |-> "19"]

LiveStores == {RepeatStore, RepeatMasteryStore, OneLineStore}

InitLive == ls \in LiveStores /\ useStateInit /\ pick = NoPick

\* The speaker button: onClick={() => targetWord && playTargetAudio(targetWord)}
\* with disabled={isPlayingAudio}.
replayAudio ==
    /\ isMounted
    /\ gameState = "PLAYING"
    /\ AudioStarts(targetWord, isPlayingAudio)
    /\ audio < MaxAudio
    /\ audio' = audio + 1
    /\ isPlayingAudio' = TRUE
    /\ errorMessage' = NULL
    /\ UNCHANGED <<imported, pick, phase, clock, ls, gameState, inputText,
                   learnedText, wordList, wordStats, score, currentOptions,
                   targetWord, feedback, dailyGoal, dailyProgress, streak,
                   goalMetToday, setupRoundEnv, timers, answers, roundCorrect,
                   signaled, streakRaised>>

\* Time of day and the date move on while the page is open: new Date() gives
\* a later instant to the handlers that follow.
ClockAdvanceOpen ==
    /\ isMounted
    /\ clock < MaxClock
    /\ clock' = clock + 1
    /\ UNCHANGED <<imported, pick, phase, ls, react, timers, audio, answers,
                   roundCorrect, signaled, streakRaised>>

\* One session that is never closed, with a user who acts when nothing is
\* pending, an audio that may fail and a clock that passes midnight.
NextLive ==
    \/ SessionStart
    \/ \E selected \in BagToSet(currentOptions), ranInCall \in BOOLEAN :
          /\ Quiet
          /\ answers < MaxAnswers
          /\ handleOptionClick(selected, ranInCall)
    \/ \E i \in 1..Len(timers) : FireTimer(i)
    \/ (timers # <<>> /\ TimePasses(NextDue))
    \/ \E ok \in BOOLEAN : AudioDone(ok)
    \/ (Quiet /\ replayAudio)
    \/ (Quiet /\ ClockAdvanceOpen)

SpecLive == InitLive /\ [][NextLive]_vars

\* ------------------------------------------------- the weighted selection
\* The weighted selection of setupRound by itself, over pools, ledgers and
\* draws: pick holds the inputs, and Select applies the selection to them.
MaxLedger == 1

SelectTexts ==
    {<<Line("a", 1), Line("b", 1)>>,
     <<Line("a", 1), Line("b", 1), Line("c", 1)>>,
     <<Line("a", 1), Line("a", 2), Line("b", 1), Line("c", 1)>>}

SelectLedgers ==
    [{"a", "b"} -> [correct : 0..MaxLedger, incorrect : 0..MaxLedger,
                    consecutiveCorrect : {0}]]

InitSelect ==
    /\ ls = FreshStore
    /\ useStateInit
    /\ pick \in [list : {parseInputData(t) : t \in SelectTexts},
                 stats : SelectLedgers, u : 0..(DrawGrid - 1),
                 target : {NoItem}, done : {FALSE}]

Select ==
    /\ ~pick.done
    /\ pick' = [pick EXCEPT !.target = PickTarget(pick.list, pick.stats,
                                                  pick.u),
                            !.done = TRUE]
    /\ UNCHANGED <<phase, clock, ls, react, timers, audio, answers,
                   roundCorrect, signaled, streakRaised, imported>>

NextSelect == Select

SpecSelect == InitSelect /\ [][NextSelect]_vars

\* ---------------------------------------------------------------- claims
\* An answer is accepted in the step.
AnswerStep == answers' = answers + 1

\* The mount effect runs in the step.
SessionStartStep == phase = "init" /\ phase' # "init"

StoredStreak == parseInt(OrDefault(ls.streak, "0"))

StoredProgress == parseInt(OrDefault(ls.progress, "0"))

\* C1: an Incorrect outcome leaves consecutiveCorrect of the target's char at
\* 0 and raises incorrect by exactly 1; a Correct outcome raises
\* consecutiveCorrect and correct by exactly 1 each.
C1_LedgerCounts ==
    [][AnswerStep =>
         LET old == StatOf(wordStats, targetWord.char)
             new == StatOf(wordStats', targetWord.char)
         IN  IF feedback' = "incorrect"
             THEN /\ new.consecutiveCorrect = 0
                  /\ new.incorrect = old.incorrect + 1
                  /\ new.correct = old.correct
             ELSE /\ new.consecutiveCorrect = old.consecutiveCorrect + 1
                  /\ new.correct = old.correct + 1
                  /\ new.incorrect = old.incorrect]_vars

\* An Incorrect outcome on a char with nineteen correct answers in a row.
C1_Witness ==
    /\ feedback = "incorrect"
    /\ targetWord.char \in DOMAIN wordStats
    /\ wordStats[targetWord.char].correct = 19
    /\ wordStats[targetWord.char].incorrect = 1
    /\ wordStats[targetWord.char].consecutiveCorrect = 0

\* The handler of the step has scheduled handleMastery.
MasteryScheduled ==
    \E i \in 1..Len(timers') :
        timers'[i].kind = "mastery" /\ timers'[i].seq = answers'

\* C2: a Correct outcome schedules handleMastery if and only if the
\* consecutiveCorrect it leaves for the target's char is >= 20.
C2_MasteryIffThreshold ==
    [][AnswerStep /\ feedback' = "correct" =>
         (MasteryScheduled <=>
            StatOf(wordStats', targetWord.char).consecutiveCorrect
               >= MASTERY_THRESHOLD)]_vars

\* C3: once a Correct outcome is recorded for a round, no answer changes the
\* ledger, the score or the progress state until the next round is created.
C3_NoReentrantAnswer ==
    [][roundCorrect /\ answers' # answers =>
         /\ wordStats' = wordStats
         /\ score' = score
         /\ dailyProgress' = dailyProgress
         /\ streak' = streak
         /\ goalMetToday' = goalMetToday]_vars

\* C4: while the removal of a mastered item is pending, the next round of
\* the same answer has not been set up: its praise and next-round timers are
\* still pending.
C4_RemovalBeforeNextRound ==
    \A i \in 1..Len(timers) :
        timers[i].kind = "mastery" =>
            \E j \in 1..Len(timers) :
                /\ timers[j].seq = timers[i].seq
                /\ timers[j].kind \in {"praiseStart", "praise", "nextRound"}

OptionChars == {o.char : o \in BagToSet(currentOptions)}

RemovalPending(c) ==
    \E i \in 1..Len(timers) :
        timers[i].kind = "mastery" /\ timers[i].word.char = c

\* C5: a char whose mastery has been signaled is shown only by the round of
\* that Correct outcome, and is the target of no round that takes answers
\* once its removal has been applied.
C5_MasteredNotOffered ==
    \A c \in signaled :
        /\ (targetWord # NoItem /\ (targetWord.char = c \/ c \in OptionChars))
              => roundCorrect
        /\ (targetWord.char = c /\ ~RemovalPending(c)) => feedback = "correct"

\* C6: the options of a round contain the target, each item once, and no
\* two items with the same char.
C6_OptionsDistinct ==
    targetWord # NoItem =>
        /\ targetWord \in BagToSet(currentOptions)
        /\ \A x \in BagToSet(currentOptions) : CopiesIn(x, currentOptions) = 1
        /\ \A x, y \in BagToSet(currentOptions) : x # y => x.char # y.char

\* A round of three options from a pool that has two lines for one char.
C6_Witness ==
    /\ targetWord # NoItem
    /\ BagCardinality(currentOptions) = 3
    /\ \E i, j \in 1..Len(wordList) :
          i # j /\ wordList[i].char = wordList[j].char

\* C7: a Correct outcome raises dailyProgress by 1; if the new dailyProgress
\* is >= dailyGoal and the goal is not yet met today, streak grows by 1 and
\* goalMetToday becomes true; otherwise both stay.
C7_ProgressAdvance ==
    [][AnswerStep /\ feedback' = "correct" =>
         /\ dailyProgress' = dailyProgress + 1
         /\ IF dailyProgress + 1 >= dailyGoal /\ ~goalMetToday
            THEN streak' = streak + 1 /\ goalMetToday'
            ELSE streak' = streak /\ goalMetToday' = goalMetToday]_vars

\* Progress 9 of 10 became 10, the goal is met and the streak grew from 1 to
\* 2, by the answer that signaled the mastery of "a".
C7_Witness ==
    /\ feedback = "correct"
    /\ dailyProgress = 10
    /\ dailyGoal = 10
    /\ goalMetToday
    /\ streak = 2
    /\ "a" \in signaled

\* C8: once the streak has been incremented, it is not incremented again
\* before the next rollover, whatever answers and goal changes follow.
C8_OneIncrementPerDay ==
    [][streakRaised /\ streakRaised' =>
         /\ StoredStreak' = StoredStreak
         /\ (phase = "open" /\ phase' = "open" => streak' = streak)]_vars

\* After the goal of 10 was met, the goal was set to 11 and the next correct
\* answer brought the progress to 11: the streak is still 2.
C8_Witness ==
    /\ streakRaised
    /\ feedback = "correct"
    /\ dailyGoal = 11
    /\ dailyProgress = 11
    /\ streak = 2

\* C9: at a session start on a new date the streak keeps its stored value if
\* the goal was met on the last active day or that day was yesterday.
C9_StreakKeptAfterOneDay ==
    [][SessionStartStep /\ Truthy(ls.lastDate)
          /\ ls.lastDate # toDateString(clock) =>
         LET gap == DayOf(clock) - DayOf(DateParse(ls.lastDate))
         IN  (gap = 1 \/ ls.goalMet = "true") => streak' = StoredStreak]_vars

\* C10: a session start on a new date sets dailyProgress to 0, goalMetToday
\* to false and the last active date to today; a session start on the same
\* date takes dailyProgress, streak and goalMetToday from the store.
C10_Rollover ==
    [][SessionStartStep =>
         IF ls.lastDate # toDateString(clock)
         THEN /\ dailyProgress' = 0
              /\ ~goalMetToday'
              /\ ls'.lastDate = toDateString(clock)
              /\ ls'.progress = "0"
              /\ ls'.goalMet = "false"
         ELSE /\ dailyProgress' = StoredProgress
              /\ streak' = StoredStreak
              /\ goalMetToday' = (ls.goalMet = "true")]_vars

\* A session that started on a later day than the last active one, whose
\* stored progress was 9.
C10_Witness ==
    /\ phase = "open"
    /\ answers = 0
    /\ DayOf(clock) >= 1
    /\ ls.lastDate = toDateString(clock)
    /\ ls.totalScore = "19"
    /\ dailyProgress = 0
    /\ ~goalMetToday

\* C12: an Incorrect outcome changes the ledger record of the target's char
\* and nothing else: progress, streak, goal flag, score, both pools, target,
\* options and the other records stay, and no mastery is signaled.
C12_IncorrectFrame ==
    [][AnswerStep /\ feedback' = "incorrect" =>
         /\ UNCHANGED <<dailyProgress, streak, goalMetToday, score, wordList,
                        inputText, learnedText, targetWord, currentOptions,
                        signaled>>
         /\ DOMAIN wordStats' = DOMAIN wordStats \cup {targetWord.char}
         /\ \A c \in DOMAIN wordStats \ {targetWord.char} :
               wordStats'[c] = wordStats[c]
         /\ ~MasteryScheduled
         /\ ls' = [ls EXCEPT !.stats = JSONstringify(wordStats')]]_vars

\* An Incorrect outcome on a target other than "a", whose record of nineteen
\* correct answers in a row is kept.
C12_Witness ==
    /\ feedback = "incorrect"
    /\ targetWord.char # "a"
    /\ targetWord.char \in DOMAIN wordStats
    /\ wordStats[targetWord.char].incorrect = 1
    /\ "a" \in DOMAIN wordStats
    /\ wordStats["a"].consecutiveCorrect = 19
    /\ dailyProgress = 9

\* The target-audio timers that setupRound has just set.
FreshRounds(tms) ==
    Cardinality({i \in 1..Len(tms) :
                    /\ tms[i].kind = "targetAudio"
                    /\ tms[i].left = TARGET_AUDIO_DELAY})

\* setupRound creates a round in the step.
RoundStep == phase' = "open" /\ FreshRounds(timers') > FreshRounds(timers)

\* C17: no round is started while the active pool has fewer than 3 items.
C17_NoRoundBelowThree == [][RoundStep => Len(wordList') >= 3]_vars

\* C20: the round made from a pool with at least 3 distinct chars has
\* exactly 3 options: the target and 2 items of the pool whose chars differ
\* from the target's and from each other's.
C20_ThreeOptions ==
    [][RoundStep /\ Cardinality(CharsOf(wordList')) >= 3 =>
         /\ BagCardinality(currentOptions') = 3
         /\ targetWord' \in BagToSet(currentOptions')
         /\ BagToSet(currentOptions') \subseteq Range(wordList')
         /\ Cardinality({o.char : o \in BagToSet(currentOptions')}) = 3]_vars

\* The round that follows an answer, made from a pool of 3 distinct chars.
C20_Witness ==
    /\ answers >= 1
    /\ ~roundCorrect
    /\ feedback = "none"
    /\ targetWord # NoItem
    /\ Cardinality(CharsOf(wordList)) = 3
    /\ BagCardinality(currentOptions) = 3

\* handleFileChange has read a file in the step.
ImportStep == imported'.n = imported.n + 1

\* The timer i is due and is the one that fires in the step.
Fired(i, kind) ==
    /\ phase = "open"
    /\ phase' = "open"
    /\ timers[i].kind = kind
    /\ timers[i].left = 0
    /\ Len(timers') >= Len(timers) - 1
    /\ SubSeq(timers', 1, Len(timers) - 1) = RemoveAt(timers, i)

C13_MasteryMovesTheLine ==
    [][/\ \A i \in 1..Len(timers) :
             Fired(i, "mastery") =>
                LET k == timers[i].word.id[2] + 1
                IN  /\ k \in 1..Len(inputText)
                    /\ inputText' = RemoveAt(inputText, k)
                    /\ learnedText' = Append(learnedText, inputText[k])
                    /\ wordStats' = wordStats
       /\ (phase = "open" /\ phase' = "open" /\ ~ImportStep) =>
             DOMAIN wordStats \subseteq DOMAIN wordStats']_vars

\* What a store holds: the ledger, the progress state, the score and the
\* two texts.
Snapshot(st) ==
    [stats |-> loadStats(st, EmptyStats),
     goal |-> parseInt(OrDefault(st.goal, "10")),
     progress |-> parseInt(OrDefault(st.progress, "0")),
     streak |-> parseInt(OrDefault(st.streak, "0")),
     goalMet |-> (st.goalMet = "true"),
     lastDate |-> st.lastDate,
     score |-> parseInt(OrDefault(st.totalScore, "0")),
     input |-> IF st.input.has THEN st.input.text ELSE DEFAULT_DATA,
     learned |-> IF st.learned.has THEN st.learned.text ELSE <<>>]

\* C14: the import of the file exported from the store succeeds and leaves
\* the store with the ledger, progress state, score and texts it had.
C14_ExportImportRoundTrip ==
    [][(ImportStep /\ imported'.file = handleExportData(ls)) =>
          imported'.ok /\ Snapshot(ls') = Snapshot(ls)]_vars

\* C15: an import that fails changes no stored key and no state.
C15_ImportAllOrNothing ==
    [][(ImportStep /\ ~imported'.ok) => (ls' = ls /\ react' = react)]_vars

\* C16: the goal, progress, streak and score in state are numbers, whatever
\* the store held when they were loaded.
C16_LoadedCountersNumeric ==
    phase = "open" =>
        dailyGoal # NaN /\ dailyProgress # NaN /\ streak # NaN /\ score # NaN

\* C19: when setupRound has returned, the target is set if and only if the
\* pool is not empty, and a set target is an item of the pool; with an empty
\* pool and no target no answer is accepted.
C19_TargetIffPool ==
    [][/\ (RoundStep \/ \E i \in 1..Len(timers) : Fired(i, "nextRound")) =>
             /\ targetWord' # NoItem <=> Len(wordList') > 0
             /\ targetWord' # NoItem => targetWord' \in Range(wordList')
       /\ (Len(wordList) = 0 /\ targetWord = NoItem) => ~AnswerStep]_vars

\* The only item was mastered and removed, and the next setupRound found the
\* pool empty.
C19_Witness ==
    /\ phase = "open"
    /\ gameState = "PLAYING"
    /\ answers >= 1
    /\ "a" \in signaled
    /\ timers = <<>>
    /\ wordList = <<>>
    /\ targetWord = NoItem

\* Roulette-wheel selection for the draw r = u / DrawGrid * totalWeight: the
\* first item in pool order whose cumulative weight is greater than r.
RouletteTarget(list, stats, u) ==
    LET w == ScaledWeights(list, stats)
        over == {k \in 1..Len(list) :
                    DrawGrid * SeqSum(SubSeq(w, 1, k)) > u * SeqSum(w)}
    IN  list[CHOOSE k \in over : \A j \in over : k <= j]

\* C18: the target selected is the first item in pool order whose cumulative
\* weight is strictly greater than the draw, also when the draw equals a
\* cumulative weight.
C18_RouletteSelection ==
    pick.done => pick.target = RouletteTarget(pick.list, pick.stats, pick.u)

\* C21: setupRound returns for every pool that is not empty, also for a pool
\* of 3 or more lines with fewer than 3 distinct chars: the page never stays
\* inside the fill loop.
C21_SetupRoundTerminates == phase # "hung"

\* C22: the setupRound that the next-round timer of a Correct outcome runs
\* computes the weights from the ledger as it is when it runs, which holds
\* that Correct answer.
C22_WeightsFromCurrentLedger ==
    [][\A i \in 1..Len(timers) :
          Fired(i, "nextRound") => timers[i].stats = wordStats]_vars

\* The praise or the next-round timer of a Correct outcome is pending.
NextRoundPending ==
    \E i \in 1..Len(timers) :
        timers[i].kind \in {"praiseStart", "praise", "nextRound"}

\* The pool is empty and the target is unset.
PoolEmptied == wordList = <<>> /\ targetWord = NoItem

\* C23: in a session that stays mounted every Correct outcome is followed by
\* a new round or, with an empty pool, by an unset target.  Only the
\* setupRound of the next-round timer ends the 'correct' feedback, so while
\* the feedback is 'correct' either the page is running and the praise or the
\* next-round timer of the answer is pending, or setupRound has found the
\* pool empty and unset the target.
C23_NextRoundEventually ==
    feedback = "correct" =>
        \/ phase = "open" /\ NextRoundPending
        \/ phase = "open" /\ PoolEmptied

\* C24: after a successful import the state in memory is that of the file:
\* the content, the mastered lines, the ledger and the progress state are
\* the values of the file for every field the file holds, an empty text of
\* mastered lines included.
C24_ImportSetsMemory ==
    [][(ImportStep /\ imported'.ok) =>
         LET d == imported'.file
             set(f) == d[f].kind = "value"
         IN  /\ set("input") =>
                   /\ inputText' = d.input.text
                   /\ wordList' = parseInputData(d.input.text)
             /\ set("learned") => learnedText' = d.learned.text
             /\ set("stats") => wordStats' = d.stats.obj
             /\ set("totalScore") => score' = parseInt(d.totalScore.str)
             /\ set("streak") => streak' = parseInt(d.streak.str)
             /\ set("dailyGoal") => dailyGoal' = parseInt(d.dailyGoal.str)
             /\ set("dailyProgress") =>
                   dailyProgress' = parseInt(d.dailyProgress.str)
             /\ set("goalMet") => goalMetToday' = (d.goalMet.str = "true")]_vars

\* A playText promise of the target audio rejects in the step: the playback
\* ends and the error message changes.
AudioFailStep ==
    /\ phase = "open"
    /\ phase' = "open"
    /\ audio' < audio
    /\ errorMessage' # errorMessage

\* C25: a failure of the target audio sets the error message and returns
\* isPlayingAudio to false, so that the speaker button starts a playback and
\* an answer is rejected only for want of a target or after a Correct
\* outcome; target, options, ledger, score, progress state and store stay.
C25_AudioFailureNonFatal ==
    [][AudioFailStep =>
         /\ errorMessage' = "Audio playback failed"
         /\ ~isPlayingAudio'
         /\ targetWord' # NoItem => AudioStarts(targetWord', isPlayingAudio')
         /\ ClickRejected' => (targetWord' = NoItem \/ feedback' = "correct")
         /\ UNCHANGED <<targetWord, currentOptions, wordList, wordStats,
                        score, dailyGoal, dailyProgress, streak, goalMetToday,
                        feedback, gameState, ls>>]_vars

\* The target audio of the round failed and the answer given after it, an
\* incorrect one, was accepted.
C25_Witness ==
    /\ phase = "open"
    /\ errorMessage = "Audio playback failed"
    /\ ~isPlayingAudio
    /\ answers >= 1
    /\ feedback = "incorrect"

\* C26: streak counts consecutive calendar days on which the goal was met,
\* so it counts no day from before a gap: a session start that comes after
\* one or more whole days without activity leaves the streak at 0.
C26_NoStreakAcrossGap ==
    [][(/\ SessionStartStep
        /\ parseInt(ls.lastDate) # NaN
        /\ DayOf(clock) - parseInt(ls.lastDate) >= 2) => streak' = 0]_vars

\* The values the state in memory holds for the keys of the store.
Memory ==
    [stats |-> wordStats, goal |-> dailyGoal, progress |-> dailyProgress,
     streak |-> streak, goalMet |-> goalMetToday, score |-> score,
     input |-> inputText, learned |-> learnedText]

\* No import has ended with an exception.
NoImportFailed == imported.n = 0 \/ imported.ok

\* C27: while the page runs, after every operation that has completed (an
\* import that failed aside), each key of the store holds the value the
\* state in memory has for it; a key that is not set stands for its default.
C27_StoreMatchesMemory ==
    (phase = "open" /\ NoImportFailed) =>
        \A f \in DOMAIN Memory : Snapshot(ls)[f] = Memory[f]

\* C28: the stored progress counts the Correct outcomes given on the stored
\* last active date, and the stored goal flag says that the goal was met on
\* that date: the first Correct outcome on a date other than the stored one
\* stores that date with a progress of 1, and the flag only if 1 meets the
\* goal.
C28_ProgressOfStoredDate ==
    [][(/\ AnswerStep
        /\ feedback' = "correct"
        /\ ls.lastDate # toDateString(clock)) =>
         /\ ls'.lastDate = toDateString(clock)
         /\ ls'.progress = "1"
         /\ ls'.goalMet = "true" => dailyGoal <= 1]_vars

====
